---- MODULE Spec2Model ----
(***************************************************************************)
(* Cascading-filter dashboard tab switcher (Tabs.tsx, Dashboards.tsx,      *)
(* config.ts).                                                              *)
(*                                                                          *)
(* The model follows React's scheduling of the two components: a user      *)
(* event runs its handler, the component re-renders, and the effects whose *)
(* dependencies changed run before the next event is handled; so one       *)
(* action is one event (or one promise settling) together with the render  *)
(* and the effects it causes.  The closures the handlers capture are the   *)
(* values of the last render, which are then the current ones.             *)
(***************************************************************************)
EXTENDS Naturals, Sequences, FiniteSets, TLC

(***************************************************************************)
(* Bounds of the model.                                                     *)
(***************************************************************************)
\* Longest selection a multi-select hands to its onChange handler.
MaxSel == 2
\* User events (filter changes, clicks) handled in one run.
MaxEvents == 3
\* Option queries and connections that fail in one run.
MaxFailures == 1
\* Option queries in flight once a user event has issued its own.
MaxInFlight == 3

(***************************************************************************)
(* config.ts                                                                *)
(***************************************************************************)
LookmlModel == "ecomm"
LookmlExplore == "order_items"

Filters ==
  << [name |-> "Country", field |-> "users.country", type |-> "select_multi",
      listens_to |-> << >>],
     [name |-> "State", field |-> "users.state", type |-> "select_multi",
      listens_to |-> <<"Country">>],
     [name |-> "City", field |-> "users.city", type |-> "select_multi",
      listens_to |-> <<"Country", "State">>],
     [name |-> "Category", field |-> "products.category", type |-> "select_multi",
      listens_to |-> << >>],
     [name |-> "Department", field |-> "products.department", type |-> "button_group",
      listens_to |-> << >>] >>

Dashboards == <<"nXJRwDcnj1SY3mz3uJtEJt", "lCLlweEWzJ6EdGTgsIHjPB", "OYRrqT1Tyxqh9PY06I3rxo">>

DateFilterName == "Created Date"

(***************************************************************************)
(* Helpers over sequences and maps (objects are functions whose domain is  *)
(* the set of keys present).                                                *)
(***************************************************************************)
Range(s) == {s[i] : i \in DOMAIN s}

EmptyMap == << >>

\* { ...m, [k]: v }
Put(m, k, v) == [x \in DOMAIN m \cup {k} |-> IF x = k THEN v ELSE m[x]]

\* delete m[k] for every k in ks
DeleteAll(m, ks) == [x \in DOMAIN m \ ks |-> m[x]]

\* m[k] || []
GetOr(m, k) == IF k \in DOMAIN m THEN m[k] ELSE << >>

\* Array.prototype.join(',')
RECURSIVE Join(_)
Join(s) ==
  IF Len(s) = 0 THEN ""
  ELSE IF Len(s) = 1 THEN s[1]
  ELSE s[1] \o "," \o Join(Tail(s))

FilterNames == {Filters[i].name : i \in DOMAIN Filters}

\* TABS_CONFIG.filters.find(f => f.name === name)
FilterConfig(name) == Filters[CHOOSE i \in DOMAIN Filters : Filters[i].name = name]

FieldOf(name) == FilterConfig(name).field

\* TABS_CONFIG.filters.filter(f => f.listens_to && f.listens_to.length > 0)
DependentFilters == {n \in FilterNames : Len(FilterConfig(n).listens_to) > 0}

MultiSelectFilters == {n \in FilterNames : FilterConfig(n).type # "button_group"}

ButtonGroupFilters == {n \in FilterNames : FilterConfig(n).type = "button_group"}

(***************************************************************************)
(* Tabs.tsx: the closure of dependents.                                     *)
(***************************************************************************)
\* Mutant: only the first parent of a filter counts, f.listens_to?.[0] === name.
DirectChildrenFirstParent(name) ==
  LET hit == SelectSeq(Filters, LAMBDA f : Len(f.listens_to) > 0 /\ f.listens_to[1] = name)
  IN  [i \in DOMAIN hit |-> hit[i].name]

\* TABS_CONFIG.filters.filter(f => f.listens_to?.includes(name)).map(f => f.name)
DirectChildren(name) ==
  LET hit == SelectSeq(Filters, LAMBDA f : name \in Range(f.listens_to))
  IN  [i \in DOMAIN hit |-> hit[i].name]

RECURSIVE GetAllDependents(_), FlatMapDependents(_)
\* [...directChildren, ...directChildren.flatMap(c => getAllDependents(c))]
GetAllDependents(name) ==
  LET directChildren == DirectChildren(name)
  IN  directChildren \o FlatMapDependents(directChildren)

FlatMapDependents(names) ==
  IF Len(names) = 0 THEN << >>
  ELSE GetAllDependents(Head(names)) \o FlatMapDependents(Tail(names))

\* Mutant: a change that does not shrink the selection counts as an addition.
IsPureAdditionByLength(oldValues, newValues) == Len(newValues) >= Len(oldValues)

\* Mutant: the test runs the wrong way round, newValues.every(val => oldValues.includes(val)).
IsPureAdditionSwapped(oldValues, newValues) ==
  \A i \in DOMAIN newValues : newValues[i] \in Range(oldValues)

\* oldValues.every(val => newValues.includes(val))
IsPureAddition(oldValues, newValues) ==
  \A i \in DOMAIN oldValues : oldValues[i] \in Range(newValues)

\* Mutant: the dependents are cleared on every change, additions included.
FilterChangeAlwaysClears(prevStagedFilters, filterName, newValues) ==
  DeleteAll(Put(prevStagedFilters, filterName, newValues),
            Range(GetAllDependents(filterName)))

\* The updater handleFilterChange passes to setStagedFilters.
FilterChangeUpdater(prevStagedFilters, filterName, newValues) ==
  LET oldValues == GetOr(prevStagedFilters, filterName)
      newFilters == Put(prevStagedFilters, filterName, newValues)
  IN  IF ~IsPureAddition(oldValues, newValues)
      THEN DeleteAll(newFilters, Range(GetAllDependents(filterName)))
      ELSE newFilters

\* Mutant: clicking the selected button again deselects it.
ButtonGroupToggle(staged, filterName, value) ==
  IF GetOr(staged, filterName) = <<value>>
  THEN DeleteAll(staged, {filterName} \cup Range(GetAllDependents(filterName)))
  ELSE DeleteAll(Put(staged, filterName, <<value>>), Range(GetAllDependents(filterName)))

\* The map handleButtonGroupChange passes to setStagedFilters.
ButtonGroupStaged(staged, filterName, value) ==
  LET newStagedFilters == Put(staged, filterName, <<value>>)
  IN  DeleteAll(newStagedFilters, Range(GetAllDependents(filterName)))

(***************************************************************************)
(* Tabs.tsx: the option query of fetchFilterOptions.                        *)
(***************************************************************************)
\* "dependencies" left out (undefined) builds the same body as an empty object.
NoDependencies == EmptyMap

\* Mutant: a parent's entry holds its first value only, parentValues[0].
QueryBodyFirstValue(filterName, dependencies) ==
  LET used == {p \in DOMAIN dependencies :
                 Len(dependencies[p]) > 0 /\ p \in FilterNames}
  IN  [model |-> LookmlModel,
       view |-> LookmlExplore,
       fields |-> <<FieldOf(filterName)>>,
       filters |-> [k \in {FieldOf(p) : p \in used} |->
                      dependencies[CHOOSE p \in used : FieldOf(p) = k][1]]]

\* queryBody: one filters entry per dependency with a non-empty value list,
\* keyed by that parent's field, holding parentValues.join(',').
QueryBody(filterName, dependencies) ==
  LET used == {p \in DOMAIN dependencies :
                 Len(dependencies[p]) > 0 /\ p \in FilterNames}
      key(p) == FieldOf(p)
  IN  [model |-> LookmlModel,
       view |-> LookmlExplore,
       fields |-> <<FieldOf(filterName)>>,
       filters |-> [k \in {key(p) : p \in used} |->
                      Join(dependencies[CHOOSE p \in used : key(p) = k])]]

\* The cascading effect's parentsWithValues for one dependent filter.
ParentsWithValues(depFilter, staged) ==
  LET listens == Range(FilterConfig(depFilter).listens_to)
      has == {p \in listens : p \in DOMAIN staged /\ Len(staged[p]) > 0}
  IN  [p \in has |-> staged[p]]

\* One call of fetchFilterOptions: the query it sends.  "initial" tells the
\* calls fetchInitialOptions awaits from the ones the cascading effect makes.
Fetch(filterName, dependencies, initial) ==
  [filterName |-> filterName,
   body |-> QueryBody(filterName, dependencies),
   initial |-> initial]

\* Mutant: the cascading effect fetches every filter again.
CascadeFetchesAll(staged) ==
  {Fetch(d, ParentsWithValues(d, staged), FALSE) : d \in FilterNames}

\* The cascading effect: one fetchFilterOptions call per dependent filter.
CascadeFetches(staged) ==
  {Fetch(d, ParentsWithValues(d, staged), FALSE) : d \in DependentFilters}

\* fetchInitialOptions: TABS_CONFIG.filters.map(f => fetchFilterOptions(f.name))
InitialFetches == {Fetch(n, NoDependencies, TRUE) : n \in FilterNames}

(***************************************************************************)
(* The data the query collaborator answers from: a small table of the      *)
(* explore, one row per line, a field being null where NULL stands.         *)
(***************************************************************************)
NULL == "<null>"

Data ==
  << [c |-> "USA", s |-> "CA",  t |-> "LA",  g |-> "Shoes", d |-> "Men"],
     [c |-> "UK",  s |-> "ENG", t |-> "LDN", g |-> "Hats",  d |-> "Women"],
     [c |-> "USA", s |-> NULL,  t |-> NULL,  g |-> "Shoes", d |-> "Men"] >>

Column(field) ==
  CASE field = "users.country" -> "c"
    [] field = "users.state" -> "s"
    [] field = "users.city" -> "t"
    [] field = "products.category" -> "g"
    [] field = "products.department" -> "d"

\* The values a field takes in the table.
FieldValues(field) == {Data[i][Column(field)] : i \in DOMAIN Data} \ {NULL}

\* Sequences without repetition of at most n elements of S.
RECURSIVE Selections(_, _)
Selections(S, n) ==
  IF n = 0 THEN {<< >>}
  ELSE LET shorter == Selections(S, n - 1)
           longest == {q \in shorter : Len(q) = n - 1}
       IN  shorter \cup UNION {{Append(q, v) : v \in S \ Range(q)} : q \in longest}

\* The values a filter expression "v1,v2" matches.
Matches(field, expr) ==
  UNION {Range(vs) : vs \in {q \in Selections(FieldValues(field), Cardinality(FieldValues(field))) :
                               Join(q) = expr}}

\* Drop the rows equal to an earlier one.
RECURSIVE Distinct(_)
Distinct(rows) ==
  IF Len(rows) = 0 THEN << >>
  ELSE LET init == Distinct(SubSeq(rows, 1, Len(rows) - 1))
           last == rows[Len(rows)]
       IN  IF last \in Range(init) THEN init ELSE Append(init, last)

\* run_inline_query: the distinct values of the one field asked for, over the
\* rows every filter expression matches, as rows {field: value}.
QueryRows(body) ==
  LET field == body.fields[1]
      ok(row) == \A k \in DOMAIN body.filters :
                   row[Column(k)] \in Matches(k, body.filters[k])
      hit == SelectSeq(Data, ok)
  IN  Distinct([i \in DOMAIN hit |-> (field :> hit[i][Column(field)])])

\* Mutant: rows are mapped without the null test.
OptionsOfKeepsNull(result, field) ==
  LET kept == SelectSeq(result, LAMBDA row : field \in DOMAIN row)
  IN  [i \in DOMAIN kept |-> [value |-> kept[i][field], label |-> kept[i][field]]]

\* result.filter(row => row && row[field] != null)
\*       .map(row => ({value: row[field].toString(), label: row[field].toString()}))
OptionsOf(result, field) ==
  LET kept == SelectSeq(result, LAMBDA row : field \in DOMAIN row /\ row[field] # NULL)
  IN  [i \in DOMAIN kept |-> [value |-> kept[i][field], label |-> kept[i][field]]]

(***************************************************************************)
(* Tabs.tsx: the date range and what Update commits.                        *)
(***************************************************************************)
DefaultDateRange == [type |-> "last", value |-> 7, unit |-> "days"]

\* The presets of the date popover.
PresetValues == {7, 30}

Preset(n) == [type |-> "last", value |-> n, unit |-> "days"]

\* Dates the calendar hands over: getFullYear(), getMonth() (from 0), getDate().
SampleDates ==
  << [year |-> 2024, month |-> 0, date |-> 5],
     [year |-> 2024, month |-> 10, date |-> 20] >>

\* String.prototype.padStart(2, '0')
PadStart2(str) == IF Len(str) < 2 THEN "0" \o str ELSE str

\* Mutant: the month is written as getMonth() gives it, counted from 0.
FormatDateMonthFromZero(date) ==
  ToString(date.year) \o "/" \o PadStart2(ToString(date.month)) \o "/"
    \o PadStart2(ToString(date.date))

\* formatDate of handleUpdateClick: YYYY/MM/DD
FormatDate(date) ==
  ToString(date.year) \o "/" \o PadStart2(ToString(date.month + 1)) \o "/"
    \o PadStart2(ToString(date.date))

DateFilterString(range) ==
  IF "from" \in DOMAIN range /\ "to" \in DOMAIN range
  THEN FormatDate(range.from) \o " to " \o FormatDate(range.to)
  ELSE IF "type" \in DOMAIN range
  THEN range.type \o " " \o ToString(range.value) \o " " \o range.unit
  ELSE ""

\* newActiveFilters of handleUpdateClick
NewActiveFilters(staged, range) ==
  LET dateFilterString == DateFilterString(range)
  IN  Put(staged, DateFilterName,
          IF dateFilterString # "" THEN <<dateFilterString>> ELSE << >>)

\* What the initial load commits.
InitialActiveFilters == (DateFilterName :> <<"last 7 days">>)

\* dashboardFilters: every active entry joined with commas.
DashboardFilters(active) == [n \in DOMAIN active |-> Join(active[n])]

(***************************************************************************)
(* Dashboards.tsx: the calls an EmbeddedDashboard makes.                    *)
(***************************************************************************)
NoHandle == [id |-> "", conn |-> 0]

\* The LookerDashboard the connection of the conn-th mounted component resolves to.
Handle(id, conn) == [id |-> id, conn |-> conn]

\* embedCtrRef: createDashboardWithId(id)...withFilters(filters)...connect()
ConnectCalls(id, filters) ==
  << [op |-> "createDashboardWithId", target |-> id],
     [op |-> "withFilters", target |-> id, filters |-> filters],
     [op |-> "connect", target |-> id] >>

\* Mutant: the dashboard is re-run before it is given the filters.
FiltersEffectRunFirst(handle, filters) ==
  IF handle # NoHandle
  THEN << [op |-> "run", target |-> handle],
          [op |-> "updateFilters", target |-> handle, filters |-> filters] >>
  ELSE << >>

\* The effect on [dashboard, props.filters]
FiltersEffect(handle, filters) ==
  IF handle # NoHandle
  THEN << [op |-> "updateFilters", target |-> handle, filters |-> filters],
          [op |-> "run", target |-> handle] >>
  ELSE << >>

(***************************************************************************)
(* State.                                                                   *)
(***************************************************************************)
VARIABLES
  stagedFilters,   \* useState<IAllFilters>: name -> selected values
  captured,        \* the stagedFilters of the last render, which the handlers
                   \* made by useCallback(..., [stagedFilters]) read
  renderPending,   \* a state change is queued and the component has not re-rendered
  activeFilters,   \* useState<IAllFilters>: what the dashboards are given
  filterOptions,   \* useState: name -> options
  dateRange,       \* useState<DateRange>
  isLoading,       \* useState(true)
  inflight,        \* the run_inline_query calls not yet settled
  issued,          \* the run_inline_query calls the last step made
  tabId,           \* the tab Tabs2 shows (its panel alone is mounted)
  connection,      \* the shown dashboard's connect(): none, pending, resolved, rejected
  dashboard,       \* the shown EmbeddedDashboard's useState<LookerDashboard>
  builtWith,       \* the filters its connection was built with
  mounts,          \* EmbeddedDashboard components mounted so far
  connects,        \* connect() calls the shown dashboard has made
  embedCalls,      \* the embed SDK calls the last step made
  last,            \* the last step: what ran, on which filter, from which maps
  nEvents,         \* user events handled
  nFailures        \* queries and connections failed

tabsVars == <<stagedFilters, captured, renderPending, activeFilters, filterOptions, dateRange, isLoading,
              inflight, issued>>
dashVars == <<tabId, connection, dashboard, builtWith, mounts, connects, embedCalls>>
vars == <<tabsVars, dashVars, last, nEvents, nFailures>>

\* The filters with a non-empty selection in a map.
Selected(staged) == {n \in DOMAIN staged : Len(staged[n]) > 0}

\* What "last" records of a step: the handler or callback that ran, the filter
\* (or dashboard) it ran on, the value it was handed, and the staged and active
\* maps it started from.
Step(op, name, arg) ==
  [op |-> op, name |-> name, arg |-> arg,
   staged |-> stagedFilters, active |-> activeFilters]

\* After the first render: its two effects have run, fetchInitialOptions and
\* the cascading effect (with nothing staged), and the spinner shows.
Init ==
  /\ stagedFilters = EmptyMap
  /\ captured = EmptyMap
  /\ renderPending = FALSE
  /\ activeFilters = EmptyMap
  /\ filterOptions = EmptyMap
  /\ dateRange = DefaultDateRange
  /\ isLoading = TRUE
  /\ inflight = InitialFetches \cup CascadeFetches(EmptyMap)
  /\ issued = InitialFetches \cup CascadeFetches(EmptyMap)
  /\ tabId = Dashboards[1]
  /\ connection = "none"
  /\ dashboard = NoHandle
  /\ builtWith = EmptyMap
  /\ mounts = 0
  /\ connects = 0
  /\ embedCalls = << >>
  /\ last = [op |-> "mount", name |-> "", arg |-> << >>,
             staged |-> EmptyMap, active |-> EmptyMap]
  /\ nEvents = 0
  /\ nFailures = 0

(***************************************************************************)
(* Re-rendering after a state change.                                       *)
(***************************************************************************)
\* The render after setStagedFilters hands the handlers the new map, and the
\* cascading effect runs because stagedFilters is a new object.
StagedEffect ==
  /\ captured' = stagedFilters'
  /\ renderPending' = FALSE
  /\ issued' = CascadeFetches(stagedFilters')
  /\ inflight' = inflight \cup issued'
  /\ Cardinality(inflight') <= MaxInFlight

\* A render in which neither the active map nor the dashboard changed.
NoEmbedCalls ==
  /\ embedCalls' = << >>
  /\ UNCHANGED <<tabId, connection, dashboard, builtWith, mounts, connects>>

\* The values of the options listed for a filter (the ButtonItems rendered).
OptionValues(filterName) == {o.value : o \in Range(GetOr(filterOptions, filterName))}

\* The values a multi-select offers: its options and what is selected.
Selectable(filterName) ==
  Range(GetOr(captured, filterName)) \cup OptionValues(filterName)

\* fetchInitialOptions is about to resume: every fetch it awaits has settled.
\* It resumes in the same task as the last of them, before any other event.
Resuming == isLoading /\ ~\E f \in inflight : f.initial

\* A user event can be handled.
UserEvent == ~Resuming /\ nEvents < MaxEvents

(***************************************************************************)
(* Event handlers of Tabs.                                                  *)
(***************************************************************************)
\* FieldSelectMulti onChange; the control is disabled while loading.
HandleFilterChange(filterName, newValues) ==
  /\ UserEvent
  /\ ~isLoading
  /\ newValues # GetOr(stagedFilters, filterName)
  /\ stagedFilters' = FilterChangeUpdater(stagedFilters, filterName, newValues)
  /\ StagedEffect
  /\ NoEmbedCalls
  /\ nEvents' = nEvents + 1
  /\ UNCHANGED <<activeFilters, filterOptions, dateRange, isLoading, nFailures>>
  /\ last' = Step("handleFilterChange", filterName, newValues)

HandleButtonGroupChange(filterName, value) ==
  /\ UserEvent
  /\ stagedFilters' = ButtonGroupStaged(captured, filterName, value)
  /\ StagedEffect
  /\ NoEmbedCalls
  /\ nEvents' = nEvents + 1
  /\ UNCHANGED <<activeFilters, filterOptions, dateRange, isLoading, nFailures>>
  /\ last' = Step("handleButtonGroupChange", filterName, value)

HandleUpdateClick ==
  /\ UserEvent
  /\ activeFilters' = NewActiveFilters(captured, dateRange)
  /\ embedCalls' = FiltersEffect(dashboard, DashboardFilters(activeFilters'))
  /\ issued' = {}
  /\ nEvents' = nEvents + 1
  /\ UNCHANGED <<stagedFilters, captured, renderPending, filterOptions, dateRange, isLoading, inflight,
                 tabId, connection, dashboard, builtWith, mounts, connects, nFailures>>
  /\ last' = Step("handleUpdateClick", "", << >>)

\* Mutant: Reset empties the staged map and leaves the date range alone.
HandleResetClickKeepsDate ==
  /\ UserEvent
  /\ stagedFilters' = EmptyMap
  /\ StagedEffect
  /\ NoEmbedCalls
  /\ nEvents' = nEvents + 1
  /\ UNCHANGED <<activeFilters, filterOptions, dateRange, isLoading, nFailures>>
  /\ last' = Step("handleResetClick", "", << >>)

HandleResetClick ==
  /\ UserEvent
  /\ stagedFilters' = EmptyMap
  /\ dateRange' = DefaultDateRange
  /\ StagedEffect
  /\ NoEmbedCalls
  /\ nEvents' = nEvents + 1
  /\ UNCHANGED <<activeFilters, filterOptions, isLoading, nFailures>>
  /\ last' = Step("handleResetClick", "", << >>)

\* A preset of the popover or a range picked in the calendar.
SetDateRange(range) ==
  /\ UserEvent
  /\ range # dateRange
  /\ dateRange' = range
  /\ issued' = {}
  /\ NoEmbedCalls
  /\ nEvents' = nEvents + 1
  /\ UNCHANGED <<stagedFilters, captured, renderPending, activeFilters, filterOptions, isLoading, inflight,
                 nFailures>>
  /\ last' = Step("setDateRange", "", << >>)

(***************************************************************************)
(* An option query settles.                                                 *)
(***************************************************************************)
\* Mutant: the answer of a query whose constraints are no longer the ones the
\* staged map asks for is dropped.
FetchResolveDropsStale(f) ==
  /\ ~Resuming
  /\ f \in inflight
  /\ filterOptions' =
       IF f.initial \/ f \in CascadeFetches(stagedFilters)
       THEN Put(filterOptions, f.filterName,
                OptionsOf(QueryRows(f.body), f.body.fields[1]))
       ELSE filterOptions
  /\ inflight' = inflight \ {f}
  /\ issued' = {}
  /\ NoEmbedCalls
  /\ UNCHANGED <<stagedFilters, captured, renderPending, activeFilters, dateRange, isLoading, nEvents, nFailures>>
  /\ last' = Step("fetchResolve", "", << >>)

\* The query answers: setFilterOptions(prev => ({...prev, [filterName]: options}))
FetchResolve(f) ==
  /\ ~Resuming
  /\ f \in inflight
  /\ filterOptions' =
       Put(filterOptions, f.filterName, OptionsOf(QueryRows(f.body), f.body.fields[1]))
  /\ inflight' = inflight \ {f}
  /\ issued' = {}
  /\ NoEmbedCalls
  /\ UNCHANGED <<stagedFilters, captured, renderPending, activeFilters, dateRange, isLoading, nEvents, nFailures>>
  /\ last' = Step("fetchResolve", "", << >>)

\* Mutant: a failed query empties the filter's option list.
FetchRejectClearsOptions(f) ==
  /\ ~Resuming
  /\ f \in inflight
  /\ nFailures < MaxFailures
  /\ nFailures' = nFailures + 1
  /\ filterOptions' = Put(filterOptions, f.filterName, << >>)
  /\ inflight' = inflight \ {f}
  /\ issued' = {}
  /\ NoEmbedCalls
  /\ UNCHANGED <<stagedFilters, captured, renderPending, activeFilters, dateRange, isLoading, nEvents>>
  /\ last' = Step("fetchReject", f.filterName, << >>)

\* The query fails: the catch block logs, and the promise of
\* fetchFilterOptions is fulfilled all the same.
FetchFails(f) ==
  /\ ~Resuming
  /\ f \in inflight
  /\ nFailures' = nFailures + 1
  /\ inflight' = inflight \ {f}
  /\ issued' = {}
  /\ NoEmbedCalls
  /\ UNCHANGED <<stagedFilters, captured, renderPending, activeFilters, filterOptions, dateRange, isLoading,
                 nEvents>>
  /\ last' = Step("fetchReject", f.filterName, << >>)

\* A failing query, while the failures the model follows are not used up.
FetchReject(f) ==
  /\ nFailures < MaxFailures
  /\ FetchFails(f)

(***************************************************************************)
(* Mounting an EmbeddedDashboard: the ref callback embedCtrRef runs once,   *)
(* with the filters of that render.                                         *)
(***************************************************************************)
\* Mutant: the connection is built without the filters of the render.
MountDashboardWithoutFilters(id, filters) ==
  /\ connection' = "pending"
  /\ dashboard' = NoHandle
  /\ builtWith' = EmptyMap
  /\ mounts' = mounts + 1
  /\ connects' = 1
  /\ embedCalls' = ConnectCalls(id, EmptyMap)

MountDashboard(id, filters) ==
  /\ connection' = "pending"
  /\ dashboard' = NoHandle
  /\ builtWith' = filters
  /\ mounts' = mounts + 1
  /\ connects' = 1
  /\ embedCalls' = ConnectCalls(id, filters)

\* Mutant: a failed query rejects Promise.all, and fetchInitialOptions ends
\* there without committing anything.
FinishInitialLoadUnlessFailed ==
  /\ Resuming
  /\ nFailures = 0
  /\ activeFilters' = InitialActiveFilters
  /\ isLoading' = FALSE
  /\ MountDashboard(tabId, DashboardFilters(activeFilters'))
  /\ issued' = {}
  /\ UNCHANGED <<stagedFilters, captured, renderPending, filterOptions, dateRange,
                 inflight, tabId, nEvents, nFailures>>
  /\ last' = Step("fetchInitialOptions", "", << >>)

\* fetchInitialOptions resumes after Promise.all: it commits the initial
\* active map and ends the loading, which renders the tabs and mounts the
\* dashboard of the tab shown.
FinishInitialLoad ==
  /\ Resuming
  /\ activeFilters' = InitialActiveFilters
  /\ isLoading' = FALSE
  /\ MountDashboard(tabId, DashboardFilters(activeFilters'))
  /\ issued' = {}
  /\ UNCHANGED <<stagedFilters, captured, renderPending, filterOptions, dateRange, inflight, tabId,
                 nEvents, nFailures>>
  /\ last' = Step("fetchInitialOptions", "", << >>)

(***************************************************************************)
(* EmbeddedDashboard.                                                       *)
(***************************************************************************)
\* The user picks another tab: its panel replaces the one shown.
SelectTab(id) ==
  /\ UserEvent
  /\ ~isLoading
  /\ id # tabId
  /\ tabId' = id
  /\ MountDashboard(id, DashboardFilters(activeFilters))
  /\ nEvents' = nEvents + 1
  /\ UNCHANGED <<tabsVars, nFailures>>
  /\ last' = Step("selectTab", id, << >>)

\* Mutant: the handle is stored and the effect on the filters does not run.
ConnectResolveWithoutPush ==
  /\ connection = "pending"
  /\ connection' = "resolved"
  /\ dashboard' = Handle(tabId, mounts)
  /\ embedCalls' = << >>
  /\ UNCHANGED <<tabsVars, tabId, builtWith, mounts, connects, nEvents, nFailures>>
  /\ last' = Step("connectResolve", tabId, << >>)

\* connect() resolves: setupDashboard stores the handle, and the effect on
\* [dashboard, props.filters] runs.
ConnectResolve ==
  /\ connection = "pending"
  /\ connection' = "resolved"
  /\ dashboard' = Handle(tabId, mounts)
  /\ embedCalls' = FiltersEffect(dashboard', DashboardFilters(activeFilters))
  /\ UNCHANGED <<tabsVars, tabId, builtWith, mounts, connects, nEvents, nFailures>>
  /\ last' = Step("connectResolve", tabId, << >>)

\* Mutant: a failed connection is built and connected again.
ConnectRejectRetries ==
  /\ connection = "pending"
  /\ nFailures < MaxFailures
  /\ nFailures' = nFailures + 1
  /\ connection' = "pending"
  /\ connects' = connects + 1
  /\ embedCalls' = ConnectCalls(tabId, builtWith)
  /\ UNCHANGED <<tabsVars, tabId, dashboard, builtWith, mounts, nEvents>>
  /\ last' = Step("connectReject", tabId, << >>)

\* connect() rejects: the catch callback logs.
ConnectReject ==
  /\ connection = "pending"
  /\ nFailures < MaxFailures
  /\ nFailures' = nFailures + 1
  /\ connection' = "rejected"
  /\ embedCalls' = << >>
  /\ UNCHANGED <<tabsVars, tabId, dashboard, builtWith, mounts, connects, nEvents>>
  /\ last' = Step("connectReject", tabId, << >>)

(***************************************************************************)
(* Specifications.                                                          *)
(***************************************************************************)
DateRanges ==
  {Preset(n) : n \in PresetValues}
    \cup {[from |-> SampleDates[i], to |-> SampleDates[i + 1]] :
            i \in 1..(Len(SampleDates) - 1)}

\* The whole program.
Next ==
  \/ \E filterName \in MultiSelectFilters :
       \E newValues \in Selections(Selectable(filterName), MaxSel) :
         HandleFilterChange(filterName, newValues)
  \/ \E filterName \in ButtonGroupFilters :
       \E value \in OptionValues(filterName) :
         HandleButtonGroupChange(filterName, value)
  \/ HandleUpdateClick
  \/ HandleResetClick
  \/ \E range \in DateRanges : SetDateRange(range)
  \/ \E f \in inflight : FetchResolve(f)
  \/ \E f \in inflight : FetchReject(f)
  \/ FinishInitialLoad
  \/ \E id \in Range(Dashboards) : SelectTab(id)
  \/ ConnectResolve
  \/ ConnectReject

Spec == Init /\ [][Next]_vars

\* The Tabs component alone: the filter bar, its queries and the initial load.
\* An EmbeddedDashboard only reads the props Tabs hands it, so what holds of
\* the Tabs state here holds of it in the whole program.
NextTabs ==
  \/ \E filterName \in MultiSelectFilters :
       \E newValues \in Selections(Selectable(filterName), MaxSel) :
         HandleFilterChange(filterName, newValues)
  \/ \E filterName \in ButtonGroupFilters :
       \E value \in OptionValues(filterName) :
         HandleButtonGroupChange(filterName, value)
  \/ HandleUpdateClick
  \/ HandleResetClick
  \/ \E range \in DateRanges : SetDateRange(range)
  \/ \E f \in inflight : FetchResolve(f)
  \/ \E f \in inflight : FetchReject(f)
  \/ FinishInitialLoad

SpecTabs == Init /\ [][NextTabs]_vars

\* The dashboards under every event of the filter bar, the option queries
\* all answering (a failed option query changes nothing a dashboard reads).
NextDash ==
  \/ \E filterName \in MultiSelectFilters :
       \E newValues \in Selections(Selectable(filterName), MaxSel) :
         HandleFilterChange(filterName, newValues)
  \/ \E filterName \in ButtonGroupFilters :
       \E value \in OptionValues(filterName) :
         HandleButtonGroupChange(filterName, value)
  \/ HandleUpdateClick
  \/ HandleResetClick
  \/ \E range \in DateRanges : SetDateRange(range)
  \/ \E f \in inflight : FetchResolve(f)
  \/ FinishInitialLoad
  \/ \E id \in Range(Dashboards) : SelectTab(id)
  \/ ConnectResolve
  \/ ConnectReject

SpecDash == Init /\ [][NextDash]_vars

(***************************************************************************)
(* Events handled in one batch: React queues the state change of each and   *)
(* renders once after the last, so a handler that reads stagedFilters reads *)
(* the map of the last render, while an updater function is handed the      *)
(* queued state.                                                            *)
(***************************************************************************)
\* handleFilterChange, the render still to come.
DispatchFilterChange(filterName, newValues) ==
  /\ UserEvent
  /\ ~isLoading
  /\ newValues # GetOr(captured, filterName)
  /\ stagedFilters' = FilterChangeUpdater(stagedFilters, filterName, newValues)
  /\ renderPending' = TRUE
  /\ issued' = {}
  /\ NoEmbedCalls
  /\ nEvents' = nEvents + 1
  /\ UNCHANGED <<captured, activeFilters, filterOptions, dateRange, isLoading,
                 inflight, nFailures>>
  /\ last' = Step("handleFilterChange", filterName, newValues)

\* handleButtonGroupChange, the render still to come.
DispatchButtonGroupChange(filterName, value) ==
  /\ UserEvent
  /\ stagedFilters' = ButtonGroupStaged(captured, filterName, value)
  /\ renderPending' = TRUE
  /\ issued' = {}
  /\ NoEmbedCalls
  /\ nEvents' = nEvents + 1
  /\ UNCHANGED <<captured, activeFilters, filterOptions, dateRange, isLoading,
                 inflight, nFailures>>
  /\ last' = Step("handleButtonGroupChange", filterName, value)

\* The render of the queued state changes, and the cascading effect after it.
Render ==
  /\ renderPending
  /\ stagedFilters' = stagedFilters
  /\ StagedEffect
  /\ NoEmbedCalls
  /\ UNCHANGED <<activeFilters, filterOptions, dateRange, isLoading, nEvents, nFailures>>
  /\ last' = Step("render", "", << >>)

\* The filter bar with its change events batched; queries answer and the
\* initial load resumes only once the queued changes are rendered.
NextBatch ==
  \/ \E filterName \in MultiSelectFilters :
       \E newValues \in Selections(Selectable(filterName), MaxSel) :
         DispatchFilterChange(filterName, newValues)
  \/ \E filterName \in ButtonGroupFilters :
       \E value \in OptionValues(filterName) :
         DispatchButtonGroupChange(filterName, value)
  \/ Render
  \/ \E f \in inflight : ~renderPending /\ FetchResolve(f)
  \/ ~renderPending /\ FinishInitialLoad

SpecBatch == Init /\ [][NextBatch]_vars

(***************************************************************************)
(* The initial load under any number of failing queries.  Every query       *)
(* issued returns, with rows or with an error, and fetchInitialOptions      *)
(* resumes in the task of the last answer it awaits.                        *)
(***************************************************************************)
NextLoad ==
  \/ HandleUpdateClick
  \/ \E f \in inflight : FetchResolve(f)
  \/ \E f \in inflight : FetchFails(f)
  \/ FinishInitialLoad

\* A query in flight settles.
Settle == \E f \in inflight : FetchFails(f) \/ FetchResolve(f)

SpecLoad ==
  /\ Init
  /\ [][NextLoad]_vars
  /\ WF_vars(Settle)
  /\ WF_vars(FinishInitialLoad)

(***************************************************************************)
(* What the claims speak of, stated from the configuration alone.           *)
(***************************************************************************)
\* The parents a filter listens to.
ListensTo(n) == Range(FilterConfig(n).listens_to)

\* The filters reachable from the filters of S by listens_to edges, S included,
\* in at most k rounds.
RECURSIVE Closure(_, _)
Closure(S, k) ==
  IF k = 0 THEN S
  ELSE Closure(S \cup {n \in FilterNames : ListensTo(n) \cap S # {}}, k - 1)

\* For every filter, the filters reachable from it by one or more listens_to edges.
DescendantsOf ==
  [X \in FilterNames |->
     Closure({n \in FilterNames : X \in ListensTo(n)}, Cardinality(FilterNames))]

Descendants(X) == DescendantsOf[X]

\* For every filter, the values its field takes in the data.
ValuesOf == [n \in FilterNames |-> FieldValues(FieldOf(n))]

\* A filter has no selection in a map: no entry, or an empty one.
NoSelection(staged, n) == n \notin Selected(staged)

\* The last step dropped a value that the filter it ran on had selected.
DroppedValue ==
  \E v \in Range(GetOr(last.staged, last.name)) : v \notin Range(last.arg)

(***************************************************************************)
(* C1: when handleFilterChange(X, newValues) drops a value of X's previous  *)
(* staged selection, no transitive dependent of X has a staged selection in *)
(* the resulting map.                                                       *)
(***************************************************************************)
C1_RemovalClearsDependents ==
  (last.op = "handleFilterChange" /\ DroppedValue)
    => \A d \in Descendants(last.name) : NoSelection(stagedFilters, d)

\* Country loses one of its two values while City has a selection.
C1_Witness ==
  /\ last.op = "handleFilterChange"
  /\ last.name = "Country"
  /\ DroppedValue
  /\ Len(last.arg) > 0
  /\ "City" \in Selected(last.staged)

(***************************************************************************)
(* C2: right after the staged selection of a parent P goes from non-empty   *)
(* to empty (handleFilterChange(P, []) or Reset), every filter F listening  *)
(* to P, and every transitive dependent of F, has no staged selection.      *)
(***************************************************************************)
C2_ClearingParentClearsChildren ==
  \A P \in FilterNames :
    (P \in Selected(last.staged) /\ P \notin Selected(stagedFilters))
      => \A F \in FilterNames :
           P \in ListensTo(F)
             => /\ NoSelection(stagedFilters, F)
                /\ \A d \in Descendants(F) : NoSelection(stagedFilters, d)

\* State is emptied by handleFilterChange(State, []) while City has a selection.
C2_Witness ==
  /\ last.op = "handleFilterChange"
  /\ last.name = "State"
  /\ last.arg = << >>
  /\ "State" \in Selected(last.staged)
  /\ "City" \in Selected(last.staged)

(***************************************************************************)
(* C3: when handleFilterChange(X, newValues) keeps every previously staged  *)
(* value of X (a pure addition), the resulting map is the previous one with *)
(* X's entry set to newValues: every other filter's selection is untouched. *)
(***************************************************************************)
C3_PureAdditionKeepsOthers ==
  (last.op = "handleFilterChange" /\ ~DroppedValue)
    => stagedFilters =
         [n \in DOMAIN last.staged \cup {last.name} |->
            IF n = last.name THEN last.arg ELSE last.staged[n]]

\* Country gains a second value while its dependent City keeps its selection.
C3_Witness ==
  /\ last.op = "handleFilterChange"
  /\ last.name = "Country"
  /\ ~DroppedValue
  /\ "Country" \in Selected(last.staged)
  /\ "City" \in Selected(last.staged)
  /\ "City" \in Selected(stagedFilters)

(***************************************************************************)
(* C4: handleButtonGroupChange(B, v) sets B's staged selection to [v] and   *)
(* leaves no transitive dependent of B with a selection, whatever B had     *)
(* selected before.  The configuration's one button group has no            *)
(* dependents, so the map the handler builds is also checked for every      *)
(* filter name it could be handed, in every reachable staged map.           *)
(***************************************************************************)
C4_ButtonGroupAlwaysClears ==
  /\ last.op = "handleButtonGroupChange"
       => /\ GetOr(stagedFilters, last.name) = <<last.arg>>
          /\ \A d \in Descendants(last.name) : NoSelection(stagedFilters, d)
  /\ \A B \in FilterNames : \A v \in ValuesOf[B] :
       LET built == ButtonGroupStaged(stagedFilters, B, v)
       IN  /\ GetOr(built, B) = <<v>>
           /\ \A d \in Descendants(B) : NoSelection(built, d)

\* The button already selected is clicked again.
C4_Witness ==
  /\ last.op = "handleButtonGroupChange"
  /\ GetOr(last.staged, last.name) = <<last.arg>>
  /\ GetOr(stagedFilters, last.name) = <<last.arg>>

(***************************************************************************)
(* C5: after every change of the staged map, for every filter F that       *)
(* listens to some parent an option fetch for F is issued whose query       *)
(* filters hold exactly one entry per parent of F with a non-empty staged   *)
(* selection, keyed by the parent's field and holding the parent's staged   *)
(* values joined with commas; with no such parent the filters are empty.    *)
(***************************************************************************)
\* The values of a list separated by commas, built from its end.
RECURSIVE CommaJoined(_)
CommaJoined(vs) ==
  IF Len(vs) = 0 THEN ""
  ELSE LET front == SubSeq(vs, 1, Len(vs) - 1)
       IN  IF Len(front) = 0 THEN vs[Len(vs)]
           ELSE CommaJoined(front) \o "," \o vs[Len(vs)]

\* The constraints the claim expects on the fetch for F under a staged map.
ExpectedConstraints(F, staged) ==
  LET parents == ListensTo(F) \cap Selected(staged)
  IN  [k \in {FieldOf(P) : P \in parents} |->
         CommaJoined(staged[CHOOSE P \in parents : FieldOf(P) = k])]

\* The last step changed the staged map (it called setStagedFilters).
StagedChanged ==
  last.op \in {"handleFilterChange", "handleButtonGroupChange", "handleResetClick"}

\* C5: every staged change issues, per dependent filter, a fetch scoped to
\* exactly the parents with a staged selection, by field, values comma-joined.
C5_CascadeFetchScopedToParents ==
  StagedChanged
    => /\ \A F \in FilterNames :
            ListensTo(F) # {}
              => /\ \E f \in issued :
                      /\ f.filterName = F
                      /\ f.body.fields = <<FieldOf(F)>>
                      /\ f.body.filters = ExpectedConstraints(F, stagedFilters)
                 /\ \A f \in issued :
                      f.filterName = F
                        => f.body.filters = ExpectedConstraints(F, stagedFilters)
       /\ issued \subseteq inflight

\* Country = [USA]: the State fetch carries users.country = "USA".
C5_Witness ==
  /\ StagedChanged
  /\ GetOr(stagedFilters, "Country") = <<"USA">>
  /\ \E f \in issued :
       /\ f.filterName = "State"
       /\ f.body.filters = ("users.country" :> "USA")
  /\ \E f \in issued :
       /\ f.filterName = "City"
       /\ DOMAIN f.body.filters = {"users.country"}

(***************************************************************************)
(* C6: Reset leaves the staged map empty and the date range at the preset   *)
(* {last, 7, days}; it leaves the active map as it was, and the dashboards  *)
(* are sent nothing.                                                        *)
(***************************************************************************)
C6_ResetRestoresDefaults ==
  last.op = "handleResetClick"
    => /\ stagedFilters = << >>
       /\ dateRange = [type |-> "last", value |-> 7, unit |-> "days"]
       /\ activeFilters = last.active
       /\ embedCalls = << >>

\* Reset after a selection was staged and committed by Update.
C6_Witness ==
  /\ last.op = "handleResetClick"
  /\ Selected(last.staged) # {}
  /\ Selected(activeFilters) \cap FilterNames # {}

(***************************************************************************)
(* C7: the active map changes only by the Update click: no other step       *)
(* changes an active map that has been committed, in particular none        *)
(* discards what an Update committed.  (The first commit, over the empty    *)
(* map the component starts with, is not counted.)                          *)
(***************************************************************************)
C7_OnlyUpdateChangesActive ==
  (last.op # "handleUpdateClick" /\ last.active # EmptyMap)
    => activeFilters = last.active

\* Update is clicked while the initial option load is still in flight.
C7_Witness ==
  /\ last.op = "handleUpdateClick"
  /\ isLoading
  /\ activeFilters # EmptyMap

(***************************************************************************)
(* C8: once the shown dashboard's handle exists, a change of the active     *)
(* map makes exactly two calls, updateFilters with the new map's entries    *)
(* joined with commas and then run, both on that handle; nothing is         *)
(* created or connected again.                                              *)
(***************************************************************************)
C8_ActiveChangePushesFilters ==
  (activeFilters # last.active /\ dashboard # NoHandle)
    => /\ embedCalls =
            << [op |-> "updateFilters", target |-> dashboard,
                filters |-> [n \in DOMAIN activeFilters |-> CommaJoined(activeFilters[n])]],
               [op |-> "run", target |-> dashboard] >>
       /\ connection = "resolved"
       /\ connects = 1

\* Update commits a two-valued selection to a connected dashboard.
C8_Witness ==
  /\ last.op = "handleUpdateClick"
  /\ dashboard # NoHandle
  /\ activeFilters # last.active
  /\ \E n \in DOMAIN activeFilters : Len(activeFilters[n]) = 2

(***************************************************************************)
(* C9: a step in which an option query fails leaves every option list, the  *)
(* staged map and the active map as they were, issues no fetch, and only    *)
(* takes the failed query out of the ones in flight.                        *)
(***************************************************************************)
C9_FailedFetchChangesNothing ==
  [][last'.op = "fetchReject"
       => /\ filterOptions' = filterOptions
          /\ stagedFilters' = stagedFilters
          /\ activeFilters' = activeFilters
          /\ issued' = {}
          /\ inflight' \subseteq inflight
          /\ Cardinality(inflight') = Cardinality(inflight) - 1]_vars

\* The query of a filter that already lists options has failed.
C9_Witness ==
  /\ last.op = "fetchReject"
  /\ last.name \in DOMAIN filterOptions
  /\ filterOptions[last.name] # << >>

(***************************************************************************)
(* C10: a mounted dashboard calls connect() once; when it fails no handle   *)
(* is stored and no step makes an embed call for that dashboard, whatever   *)
(* happens to the active map afterwards.                                    *)
(***************************************************************************)
C10_FailedConnectStaysDown ==
  /\ connects <= 1
  /\ connection = "rejected"
       => /\ dashboard = NoHandle
          /\ connects = 1
          /\ embedCalls = << >>

\* The active map changes after the shown dashboard's connection failed.
C10_Witness ==
  /\ connection = "rejected"
  /\ last.op = "handleUpdateClick"
  /\ activeFilters # last.active

(***************************************************************************)
(* C11: option fetches are never cancelled and their answers are applied    *)
(* as they arrive: a query leaves the ones in flight only by settling, and  *)
(* when it answers its options replace the filter's list whatever the       *)
(* staged map has become.  So a superseded query answering last leaves a    *)
(* dependent filter listing the options of parent values no longer staged,  *)
(* with nothing in flight to correct it (the witness).                      *)
(***************************************************************************)
\* The options the data holds for F under the constraints a staged map asks for.
FreshOptions(F, staged) ==
  LET rows == QueryRows([fields |-> <<FieldOf(F)>>,
                         filters |-> ExpectedConstraints(F, staged)])
      vals == SelectSeq(rows, LAMBDA row : row[FieldOf(F)] # NULL)
  IN  [i \in DOMAIN vals |-> [value |-> vals[i][FieldOf(F)],
                               label |-> vals[i][FieldOf(F)]]]

\* The options a query in flight will answer with.
AnswerOf(f) ==
  LET rows == QueryRows(f.body)
      vals == SelectSeq(rows, LAMBDA row : row[f.body.fields[1]] # NULL)
  IN  [i \in DOMAIN vals |-> [value |-> vals[i][f.body.fields[1]],
                               label |-> vals[i][f.body.fields[1]]]]

\* C11: a fetch leaves flight only by settling; its answer is applied as it arrives.
C11_AnswersAppliedInArrivalOrder ==
  [][\A f \in inflight :
       f \notin inflight'
         => /\ inflight' = inflight \ {f}
            /\ last'.op \in {"fetchResolve", "fetchReject"}
            /\ last'.op = "fetchResolve"
                 => filterOptions' =
                      [n \in DOMAIN filterOptions \cup {f.filterName} |->
                         IF n = f.filterName THEN AnswerOf(f) ELSE filterOptions[n]]]_vars

\* Country = [USA] is staged, every query has answered and none has failed,
\* yet State lists the options of the unconstrained query issued earlier.
C11_Witness ==
  /\ last.op = "fetchResolve"
  /\ inflight = {}
  /\ nFailures = 0
  /\ ~isLoading
  /\ "Country" \in Selected(stagedFilters)
  /\ "State" \in DOMAIN filterOptions
  /\ filterOptions["State"] # FreshOptions("State", stagedFilters)

(***************************************************************************)
(* C12: Update sets the active map to the staged map plus one entry under   *)
(* the date filter's name holding the one formatted date string; filters    *)
(* without a staged entry get no active entry, and the staged map and the   *)
(* date range stay as they were.                                            *)
(***************************************************************************)
\* The date strings the claim expects, written out for the ranges the popover
\* hands over: a preset, and 5 January 2024 to 20 November 2024.
ExpectedDateString(range) ==
  CASE range = [type |-> "last", value |-> 7, unit |-> "days"] -> "last 7 days"
    [] range = [type |-> "last", value |-> 30, unit |-> "days"] -> "last 30 days"
    [] range = [from |-> [year |-> 2024, month |-> 0, date |-> 5],
                to |-> [year |-> 2024, month |-> 10, date |-> 20]]
         -> "2024/01/05 to 2024/11/20"

\* C12: what a step of handleUpdateClick commits and what it leaves alone.
C12_UpdateCommitsStagedAndDate ==
  [][last'.op = "handleUpdateClick"
       => /\ DOMAIN activeFilters' = DOMAIN stagedFilters \cup {"Created Date"}
          /\ \A n \in DOMAIN stagedFilters : activeFilters'[n] = stagedFilters[n]
          /\ activeFilters'["Created Date"] = <<ExpectedDateString(dateRange)>>
          /\ \A n \in FilterNames :
               n \notin DOMAIN stagedFilters => n \notin DOMAIN activeFilters'
          /\ stagedFilters' = stagedFilters
          /\ dateRange' = dateRange]_vars

\* Update commits a staged Country together with a custom date range.
C12_Witness ==
  /\ last.op = "handleUpdateClick"
  /\ "Country" \in Selected(activeFilters)
  /\ "City" \notin DOMAIN activeFilters
  /\ activeFilters["Created Date"] = <<"2024/01/05 to 2024/11/20">>

(***************************************************************************)
(* C13: a filter that listens to nothing is fetched by the initial load     *)
(* alone, without constraints; a change of the staged map issues no fetch   *)
(* for it and leaves its option list as it was.                             *)
(***************************************************************************)
\* The filters that listen to no parent.
RootFilters == {n \in FilterNames : ListensTo(n) = {}}

\* C13: root filters are fetched only by the initial load, unconstrained, and
\* their options change only when one of those fetches answers.
C13_RootFiltersFetchedOnce ==
  /\ [](\A f \in inflight \cup issued :
          f.filterName \in RootFilters
            => f.initial /\ DOMAIN f.body.filters = {})
  /\ [][/\ \A f \in inflight' :
              f.filterName \in RootFilters => f \in inflight
        /\ last'.op \in {"handleFilterChange", "handleButtonGroupChange",
                         "handleResetClick"}
             => /\ filterOptions' = filterOptions
                /\ \A f \in issued' : f.filterName \notin RootFilters
        /\ \A n \in RootFilters :
             GetOr(filterOptions', n) # GetOr(filterOptions, n)
               => \E f \in inflight :
                    /\ f.filterName = n
                    /\ f.initial
                    /\ inflight' = inflight \ {f}]_vars

\* Country changes once its options are listed: fetches go out, none for a root.
C13_Witness ==
  /\ last.op = "handleFilterChange"
  /\ last.name = "Country"
  /\ GetOr(filterOptions, "Country") # << >>
  /\ issued # {}
  /\ \A f \in issued : f.filterName \notin RootFilters

(***************************************************************************)
(* C14: for the configured filters getAllDependents(X) ends, and the names  *)
(* it returns are exactly the filters reachable from X over one or more     *)
(* listens_to edges: State and City for Country, City for State, none for   *)
(* Category and Department; X is never among them.                          *)
(* What handleFilterChange deletes on a removal is that set of names.       *)
(***************************************************************************)
C14_GetAllDependentsIsClosure ==
  /\ \A X \in FilterNames :
       /\ Range(GetAllDependents(X)) = Descendants(X)
       /\ X \notin Range(GetAllDependents(X))
  /\ Range(GetAllDependents("Country")) = {"State", "City"}
  /\ Range(GetAllDependents("State")) = {"City"}
  /\ Range(GetAllDependents("Category")) = {}
  /\ Range(GetAllDependents("Department")) = {}
  /\ (last.op = "handleFilterChange" /\ DroppedValue)
       => DOMAIN stagedFilters =
            (DOMAIN last.staged \cup {last.name}) \ Descendants(last.name)

\* handleFilterChange has used the closure of State to clear City.
C14_Witness ==
  /\ last.op = "handleFilterChange"
  /\ last.name = "State"
  /\ DroppedValue
  /\ "City" \in DOMAIN last.staged
  /\ "City" \notin DOMAIN stagedFilters
  /\ Range(GetAllDependents(last.name)) = {"City"}

RECURSIVE NonNullOptions(_, _)
NonNullOptions(rows, field) ==
  IF Len(rows) = 0 THEN << >>
  ELSE LET row == Head(rows)
           rest == NonNullOptions(Tail(rows), field)
       IN  IF field \in DOMAIN row /\ row[field] # NULL
           THEN <<[value |-> row[field], label |-> row[field]]>> \o rest
           ELSE rest

\* Results of up to three rows over a value, a second value, a null value and
\* a row without the field.
SampleRows(field) ==
  {(field :> "CA"), (field :> "ENG"), (field :> NULL), ("other.field" :> "x")}

SampleResults(field) ==
  {<< >>}
    \cup {<<a>> : a \in SampleRows(field)}
    \cup {<<a, b>> : a \in SampleRows(field), b \in SampleRows(field)}
    \cup {<<a, b, c>> : a \in SampleRows(field), b \in SampleRows(field),
                        c \in SampleRows(field)}

\* The mapping of fetchFilterOptions agrees with the claim on every sample result.
SampleResultsAgree ==
  \A F \in FilterNames : \A result \in SampleResults(FieldOf(F)) :
    OptionsOf(result, FieldOf(F)) = NonNullOptions(result, FieldOf(F))

\* C16: what a step in which a query answers does to the option lists.
C16_AnswerBecomesOptions ==
  [][last'.op = "fetchResolve"
       => /\ SampleResultsAgree
          /\ \E f \in inflight :
               /\ inflight' = inflight \ {f}
               /\ filterOptions' =
                    [n \in DOMAIN filterOptions \cup {f.filterName} |->
                       IF n = f.filterName
                       THEN NonNullOptions(QueryRows(f.body), FieldOf(f.filterName))
                       ELSE filterOptions[n]]]_vars

\* The unconstrained State query answered with a null row among its rows, and
\* State lists the other rows' values in order.
C16_Witness ==
  LET rows == QueryRows([fields |-> <<"users.state">>, filters |-> EmptyMap])
  IN  /\ last.op = "fetchResolve"
      /\ \E i \in DOMAIN rows : rows[i]["users.state"] = NULL
      /\ "State" \in DOMAIN filterOptions
      /\ filterOptions["State"] = <<[value |-> "CA", label |-> "CA"],
                                    [value |-> "ENG", label |-> "ENG"]>>
      /\ "Country" \in DOMAIN filterOptions

C18_InitialLoadFinishes ==
  <>(/\ ~isLoading
     /\ last.op = "fetchInitialOptions"
     /\ activeFilters = ("Created Date" :> <<"last 7 days">>))

\* The load has finished although every initial query failed.
C18_Witness ==
  /\ ~isLoading
  /\ last.op = "fetchInitialOptions"
  /\ nFailures >= Cardinality(FilterNames)
  /\ \A n \in RootFilters : n \notin DOMAIN filterOptions
  /\ activeFilters = ("Created Date" :> <<"last 7 days">>)

(***************************************************************************)
(* C19: when the handle of a connection is stored, the filter set active    *)
(* at that moment is pushed to it, updateFilters and then run, also when    *)
(* the active set changed while connect() was pending; with the push on     *)
(* every later change, a connected dashboard is never left on a filter set  *)
(* older than the active one.                                               *)
(***************************************************************************)
C19_ConnectPushesCurrentFilters ==
  [][(dashboard' # NoHandle /\ (dashboard = NoHandle \/ activeFilters' # activeFilters))
       => embedCalls' =
            << [op |-> "updateFilters", target |-> dashboard',
                filters |-> [n \in DOMAIN activeFilters' |->
                               CommaJoined(activeFilters'[n])]],
               [op |-> "run", target |-> dashboard'] >>]_vars

\* The connection succeeds after Update changed the active set it was built with.
C19_Witness ==
  /\ last.op = "connectResolve"
  /\ dashboard # NoHandle
  /\ builtWith # [n \in DOMAIN activeFilters |-> CommaJoined(activeFilters[n])]
  /\ Len(embedCalls) = 2
  /\ embedCalls[1].filters # builtWith

(***************************************************************************)
(* C20: in every state with no option query in flight and none failed,      *)
(* every value staged for a dependent filter is among the options listed    *)
(* for that filter.                                                         *)
(***************************************************************************)
C20_StagedChildWithinOptions ==
  (inflight = {} /\ nFailures = 0)
    => \A F \in FilterNames :
         ListensTo(F) # {}
           => \A v \in Range(GetOr(stagedFilters, F)) :
                \E o \in Range(GetOr(filterOptions, F)) : o.value = v

\* Country has just gained its first value by a pure addition while State
\* keeps a selection that is not among the options for the staged Country.
C20_Witness ==
  /\ last.op = "handleFilterChange"
  /\ last.name = "Country"
  /\ GetOr(last.staged, "Country") = << >>
  /\ "Country" \in Selected(stagedFilters)
  /\ "State" \in Selected(last.staged)
  /\ GetOr(stagedFilters, "State") = last.staged["State"]
  /\ \E v \in Range(stagedFilters["State"]) :
       \A o \in Range(FreshOptions("State", stagedFilters)) : o.value # v

====
